---- MODULE Spec2Model ----
(***************************************************************************)
(* Model of the k8s-oline authorization webhook: the CEL rule evaluator    *)
(* (package cel), the Authorizer pipeline (package auth) and the startup   *)
(* that builds them.                                                       *)
(*                                                                         *)
(* Strings are modelled as sequences of tokens: a Go string is the         *)
(* concatenation of its tokens, "+" is \o, strings.HasPrefix is the prefix *)
(* relation on token sequences and strings.Contains is the contiguous      *)
(* sub-sequence relation.  Every string that the program can compare with  *)
(* another one is cut at the same places ("system:masters" is always       *)
(* <<"system:", "masters">>), so equality, prefix and containment of the   *)
(* modelled strings agree with those of the Go strings.                    *)
(***************************************************************************)
EXTENDS Integers, Sequences, FiniteSets, TLC

(***************************************************************************)
(* Bounds of the model.                                                    *)
(***************************************************************************)
MaxRules == 2
MaxGroups == 2
MaxCalls == 2

(***************************************************************************)
(* String helpers (package strings, fmt).                                  *)
(***************************************************************************)
HasPrefix(s, prefix) ==
    /\ Len(prefix) <= Len(s)
    /\ SubSeq(s, 1, Len(prefix)) = prefix

Contains(s, substr) ==
    \E i \in 0..(Len(s) - Len(substr)) : SubSeq(s, i + 1, i + Len(substr)) = substr

DigitTokens == <<"0", "1", "2", "3", "4", "5", "6", "7", "8", "9">>

RECURSIVE Itoa(_)
Itoa(n) ==
    IF n < 10 THEN <<DigitTokens[n + 1]>>
    ELSE Itoa(n \div 10) \o <<DigitTokens[(n % 10) + 1]>>

(***************************************************************************)
(* String values the inputs are drawn from.                                *)
(***************************************************************************)
EmptyString == <<>>
SystemMasters == <<"system:", "masters">>
SystemNodes == <<"system:", "nodes">>
Delete == <<"delete">>
DeleteCollection == <<"delete", "collection">>
Get == <<"get">>
AuthenticationGroup == <<"authentication.k8s.io">>
UserExtras == <<"userextras">>
GroupsSubresource == <<"groups">>
GroupsSystemMasters == <<"/groups/">> \o SystemMasters
ImpersonationPath == <<"/api/v1/users/~">> \o GroupsSystemMasters
HealthzPath == <<"/healthz">>

UserValues == {<<"admin">>, <<"test-user">>}
GroupValues == {SystemMasters, SystemNodes}
PrefixValues == {EmptyString, <<"test-">>}
PrivilegedUserValues == {<<"admin">>}
NameValues == {EmptyString, <<"test-", "resource">>, SystemMasters}
VerbValues == {Delete, DeleteCollection}

(***************************************************************************)
(* authorizationv1.SubjectAccessReview.  A pointer field is a sequence of  *)
(* length at most one: Nil is the nil pointer, <<r>> points to r.          *)
(***************************************************************************)
Nil == <<>>
Ptr(r) == <<r>>
Deref(p) == p[1]

\* A decoded document (JSON, YAML) is a function from its keys to their
\* values; a key that is left out decodes to the zero value of its field.
Field(obj, key, zero) == IF key \in DOMAIN obj THEN obj[key] ELSE zero

EmptyObject == <<>>

\* The fields the indirect impersonation guard reads take the guarded value
\* or another one; a review differs from the guarded triple in no field, in
\* one field or in all three.
GuardedFieldsOff(r) ==
    Cardinality({f \in {"Group", "Resource", "Subresource"} :
                    r[f] # [Group |-> AuthenticationGroup, Resource |-> UserExtras,
                            Subresource |-> GroupsSubresource][f]})

ResourceAttributesValues ==
    {r \in [Group : {EmptyString, AuthenticationGroup},
            Version : {<<"v1">>},
            Resource : {<<"pods">>, UserExtras},
            Subresource : {EmptyString, GroupsSubresource},
            Namespace : {<<"prod">>},
            Name : NameValues,
            Verb : VerbValues] : GuardedFieldsOff(r) \in {0, 1, 3}}

NonResourceAttributesValues ==
    {[Path |-> HealthzPath, Verb |-> Get],
     [Path |-> ImpersonationPath, Verb |-> <<"impersonate">>],
     [Path |-> <<"/apis">> \o GroupsSystemMasters \o <<"/extra">>, Verb |-> Get]}

SeqsUpTo(S, n) == UNION {[1..k -> S] : k \in 0..n}

SubjectAccessReviews ==
    [User : UserValues,
     Groups : SeqsUpTo(GroupValues, MaxGroups),
     ResourceAttributes : {Nil} \cup {Ptr(r) : r \in ResourceAttributesValues},
     NonResourceAttributes : {Nil} \cup {Ptr(r) : r \in NonResourceAttributesValues}]

(***************************************************************************)
(* The CEL library, as far as the rules of the model need it.  A value is  *)
(* [t, v] with t its CEL type; an evaluation error is a value of type      *)
(* "error".                                                                *)
(***************************************************************************)
BoolVal(b) == [t |-> "bool", v |-> b]
StringVal(s) == [t |-> "string", v |-> s]
ListVal(l) == [t |-> "list", v |-> l]
MapVal(m) == [t |-> "map", v |-> m]
ErrVal == [t |-> "error", v |-> "no such attribute"]

RuleInGroups == "'system:masters' in groups"
RuleVerbDelete == "has(resourceAttributes.verb) && resourceAttributes.verb == 'delete'"
RuleUser == "user"
RuleInvalid == "invalid syntax"
RuleIllTyped == "user == 1"
RuleEmpty == ""

RuleExpressions ==
    {RuleEmpty, RuleInvalid, RuleIllTyped, RuleInGroups, RuleVerbDelete, RuleUser}

\* issues.Err() of an expression that does not compile.
Issues(rule) ==
    IF rule = RuleIllTyped THEN <<"found no matching overload for '_==_'">>
    ELSE <<"Syntax error">>

CompileError == [op |-> "compile error"]

\* env.Compile followed by env.Program: the checked expression, or CompileError.
Compile(rule) ==
    CASE rule = RuleInGroups ->
           [op |-> "in", l |-> [op |-> "lit", val |-> StringVal(SystemMasters)],
                         r |-> [op |-> "ident", name |-> "groups"]]
      [] rule = RuleVerbDelete ->
           [op |-> "and",
            l |-> [op |-> "has", operand |-> [op |-> "ident", name |-> "resourceAttributes"],
                                 field |-> "verb"],
            r |-> [op |-> "eq",
                   l |-> [op |-> "select",
                          operand |-> [op |-> "ident", name |-> "resourceAttributes"],
                          field |-> "verb"],
                   r |-> [op |-> "lit", val |-> StringVal(Delete)]]]
      [] rule = RuleUser -> [op |-> "ident", name |-> "user"]
      [] OTHER -> CompileError

InList(x, l) == \E k \in 1..Len(l) : l[k] = x

\* program.Eval: the value of a checked expression under the bindings vars.
RECURSIVE Eval(_, _)
Eval(ast, vars) ==
    CASE ast.op = "lit" -> ast.val
      [] ast.op = "ident" ->
           IF ast.name \in DOMAIN vars THEN vars[ast.name] ELSE ErrVal
      [] ast.op = "select" ->
           LET m == Eval(ast.operand, vars) IN
           IF m.t = "error" THEN m
           ELSE IF ast.field \in DOMAIN m.v THEN StringVal(m.v[ast.field]) ELSE ErrVal
      [] ast.op = "has" ->
           LET m == Eval(ast.operand, vars) IN
           IF m.t = "error" THEN m ELSE BoolVal(ast.field \in DOMAIN m.v)
      [] ast.op = "eq" ->
           LET a == Eval(ast.l, vars)
               b == Eval(ast.r, vars) IN
           IF a.t = "error" THEN a
           ELSE IF b.t = "error" THEN b
           ELSE BoolVal(a.t = b.t /\ a.v = b.v)
      [] ast.op = "in" ->
           LET a == Eval(ast.l, vars)
               b == Eval(ast.r, vars) IN
           IF a.t = "error" THEN a
           ELSE IF b.t = "error" THEN b
           ELSE BoolVal(InList(a.v, b.v))
      [] ast.op = "and" ->
           LET a == Eval(ast.l, vars)
               b == Eval(ast.r, vars) IN
           IF a.t = "bool" /\ a.v = FALSE THEN a
           ELSE IF b.t = "bool" /\ b.v = FALSE THEN b
           ELSE IF a.t = "error" THEN a
           ELSE IF b.t = "error" THEN b
           ELSE BoolVal(TRUE)

(***************************************************************************)
(* package cel                                                             *)
(***************************************************************************)
\* compileRules: the programs of the non-empty rules in order, or the first
\* rule that does not compile.
\* Faulty variant: a rule that does not compile is left out and the rest is
\* returned.
RECURSIVE compileRules_SkipInvalid(_, _, _)
compileRules_SkipInvalid(rules, i, programs) ==
    IF i > Len(rules) THEN [programs |-> programs, err |-> Nil]
    ELSE IF rules[i] = RuleEmpty THEN compileRules_SkipInvalid(rules, i + 1, programs)
    ELSE IF Compile(rules[i]) = CompileError
         THEN compileRules_SkipInvalid(rules, i + 1, programs)
    ELSE compileRules_SkipInvalid(rules, i + 1, Append(programs, Compile(rules[i])))

\* Faulty variant: each program is put in front of the list.
RECURSIVE compileRules_Prepend(_, _, _)
compileRules_Prepend(rules, i, programs) ==
    IF i > Len(rules) THEN [programs |-> programs, err |-> Nil]
    ELSE IF rules[i] = RuleEmpty THEN compileRules_Prepend(rules, i + 1, programs)
    ELSE IF Compile(rules[i]) = CompileError
         THEN [programs |-> <<>>,
               err |-> Ptr(<<"failed to compile CEL rule '", rules[i], "': ">>
                           \o Issues(rules[i]))]
    ELSE compileRules_Prepend(rules, i + 1, <<Compile(rules[i])>> \o programs)

\* Faulty variant: an empty expression keeps its place as a rule that passes.
RECURSIVE compileRules_KeepBlanks(_, _, _)
compileRules_KeepBlanks(rules, i, programs) ==
    IF i > Len(rules) THEN [programs |-> programs, err |-> Nil]
    ELSE IF rules[i] = RuleEmpty
         THEN compileRules_KeepBlanks(rules, i + 1,
                  Append(programs, [op |-> "lit", val |-> BoolVal(TRUE)]))
    ELSE IF Compile(rules[i]) = CompileError
         THEN [programs |-> <<>>,
               err |-> Ptr(<<"failed to compile CEL rule '", rules[i], "': ">>
                           \o Issues(rules[i]))]
    ELSE compileRules_KeepBlanks(rules, i + 1, Append(programs, Compile(rules[i])))

RECURSIVE compileRules(_, _, _)
compileRules(rules, i, programs) ==
    IF i > Len(rules) THEN [programs |-> programs, err |-> Nil]
    ELSE IF rules[i] = RuleEmpty THEN compileRules(rules, i + 1, programs)
    ELSE IF Compile(rules[i]) = CompileError
         THEN [programs |-> <<>>,
               err |-> Ptr(<<"failed to compile CEL rule '", rules[i], "': ">>
                           \o Issues(rules[i]))]
    ELSE compileRules(rules, i + 1, Append(programs, Compile(rules[i])))

\* NewEvaluator: [eval, err], eval = Nil when err is set.
NewEvaluator(rules) ==
    LET c == compileRules(rules, 1, <<>>) IN
    IF c.err # Nil
    THEN [eval |-> Nil, err |-> Ptr(<<"failed to compile CEL rules: ">> \o Deref(c.err))]
    ELSE [eval |-> Ptr([programs |-> c.programs]), err |-> Nil]

\* The variable bindings Evaluate builds for a review.
EvaluateVars(sar) ==
    LET base == [n \in {"user", "groups"} |->
                    IF n = "user" THEN StringVal(sar.User) ELSE ListVal(sar.Groups)]
        ra == IF sar.ResourceAttributes # Nil
              THEN LET a == Deref(sar.ResourceAttributes) IN
                   [n \in {"resourceAttributes"} |->
                       MapVal([group |-> a.Group, version |-> a.Version,
                               resource |-> a.Resource, name |-> a.Name,
                               namespace |-> a.Namespace, verb |-> a.Verb,
                               subresource |-> a.Subresource])]
              ELSE <<>>
        nra == IF sar.NonResourceAttributes # Nil
               THEN LET a == Deref(sar.NonResourceAttributes) IN
                    [n \in {"nonResourceAttributes"} |->
                        MapVal([path |-> a.Path, verb |-> a.Verb])]
               ELSE <<>>
    IN  base @@ ra @@ nra

Decision(allowed, reason) == [allowed |-> allowed, reason |-> reason]

\* The loop of Evaluate over the programs from position i (1-based here,
\* reported 0-based).
\* Faulty variant: a rule whose evaluation fails is skipped.
RECURSIVE EvaluateLoop_SkipErrors(_, _, _)
EvaluateLoop_SkipErrors(programs, vars, i) ==
    IF i > Len(programs) THEN Decision(TRUE, <<"Request allowed by CEL rules">>)
    ELSE LET result == Eval(programs[i], vars) IN
         IF result.t = "error"
         THEN EvaluateLoop_SkipErrors(programs, vars, i + 1)
         ELSE IF result.t # "bool"
         THEN Decision(FALSE, <<"Invalid result from CEL rule ">> \o Itoa(i - 1))
         ELSE IF ~result.v
         THEN Decision(FALSE, <<"Request denied by CEL rule ">> \o Itoa(i - 1))
         ELSE EvaluateLoop_SkipErrors(programs, vars, i + 1)

\* Faulty variant: the rules are combined with OR, the first passing rule allows.
RECURSIVE EvaluateLoop_AnyPasses(_, _, _)
EvaluateLoop_AnyPasses(programs, vars, i) ==
    IF i > Len(programs) THEN Decision(TRUE, <<"Request allowed by CEL rules">>)
    ELSE LET result == Eval(programs[i], vars) IN
         IF result.t = "error"
         THEN Decision(FALSE, <<"Error evaluating CEL rule ">> \o Itoa(i - 1))
         ELSE IF result.t # "bool"
         THEN Decision(FALSE, <<"Invalid result from CEL rule ">> \o Itoa(i - 1))
         ELSE IF ~result.v
         THEN Decision(FALSE, <<"Request denied by CEL rule ">> \o Itoa(i - 1))
         ELSE Decision(TRUE, <<"Request allowed by CEL rules">>)

\* Faulty variant: the loop runs to the end and reports the last failing rule.
RECURSIVE EvaluateLoop_LastFailure(_, _, _)
EvaluateLoop_LastFailure(programs, vars, i) ==
    IF i > Len(programs) THEN Decision(TRUE, <<"Request allowed by CEL rules">>)
    ELSE LET result == Eval(programs[i], vars)
             rest == EvaluateLoop_LastFailure(programs, vars, i + 1) IN
         IF ~rest.allowed THEN rest
         ELSE IF result.t = "error"
         THEN Decision(FALSE, <<"Error evaluating CEL rule ">> \o Itoa(i - 1))
         ELSE IF result.t # "bool"
         THEN Decision(FALSE, <<"Invalid result from CEL rule ">> \o Itoa(i - 1))
         ELSE IF ~result.v
         THEN Decision(FALSE, <<"Request denied by CEL rule ">> \o Itoa(i - 1))
         ELSE rest

\* Faulty variant: a result that is not a boolean counts as a pass.
RECURSIVE EvaluateLoop_NonBoolPasses(_, _, _)
EvaluateLoop_NonBoolPasses(programs, vars, i) ==
    IF i > Len(programs) THEN Decision(TRUE, <<"Request allowed by CEL rules">>)
    ELSE LET result == Eval(programs[i], vars) IN
         IF result.t = "error"
         THEN Decision(FALSE, <<"Error evaluating CEL rule ">> \o Itoa(i - 1))
         ELSE IF result.t # "bool"
         THEN EvaluateLoop_NonBoolPasses(programs, vars, i + 1)
         ELSE IF ~result.v
         THEN Decision(FALSE, <<"Request denied by CEL rule ">> \o Itoa(i - 1))
         ELSE EvaluateLoop_NonBoolPasses(programs, vars, i + 1)

RECURSIVE EvaluateLoop(_, _, _)
EvaluateLoop(programs, vars, i) ==
    IF i > Len(programs) THEN Decision(TRUE, <<"Request allowed by CEL rules">>)
    ELSE LET result == Eval(programs[i], vars) IN
         IF result.t = "error"
         THEN Decision(FALSE, <<"Error evaluating CEL rule ">> \o Itoa(i - 1))
         ELSE IF result.t # "bool"
         THEN Decision(FALSE, <<"Invalid result from CEL rule ">> \o Itoa(i - 1))
         ELSE IF ~result.v
         THEN Decision(FALSE, <<"Request denied by CEL rule ">> \o Itoa(i - 1))
         ELSE EvaluateLoop(programs, vars, i + 1)

Evaluate(e, sar) ==
    IF Len(e.programs) = 0 THEN Decision(TRUE, <<"No CEL rules configured">>)
    ELSE EvaluateLoop(e.programs, EvaluateVars(sar), 1)

(***************************************************************************)
(* package auth                                                            *)
(***************************************************************************)
IndirectImpersonation(sar) ==
    /\ sar.ResourceAttributes # Nil
    /\ Deref(sar.ResourceAttributes).Group = AuthenticationGroup
    /\ Deref(sar.ResourceAttributes).Resource = UserExtras
    /\ Deref(sar.ResourceAttributes).Subresource = GroupsSubresource
    /\ Deref(sar.ResourceAttributes).Name = SystemMasters

\* Faulty variant: the guard also requires the verb "impersonate".
DirectImpersonation_VerbChecked(sar) ==
    /\ sar.NonResourceAttributes # Nil
    /\ Deref(sar.NonResourceAttributes).Verb = <<"impersonate">>
    /\ Contains(Deref(sar.NonResourceAttributes).Path, GroupsSystemMasters)

DirectImpersonation(sar) ==
    /\ sar.NonResourceAttributes # Nil
    /\ Contains(Deref(sar.NonResourceAttributes).Path, GroupsSystemMasters)

\* Faulty variant: the gate does not look at the verb.
ProtectedDelete_AnyVerb(cfg, sar) ==
    /\ sar.ResourceAttributes # Nil
    /\ HasPrefix(Deref(sar.ResourceAttributes).Name, cfg.ProtectedPrefix)

\* Faulty variant: a resource without a name counts as protected.
ProtectedDelete_EmptyNameProtected(cfg, sar) ==
    /\ sar.ResourceAttributes # Nil
    /\ Deref(sar.ResourceAttributes).Verb = Delete
    /\ \/ Deref(sar.ResourceAttributes).Name = EmptyString
       \/ HasPrefix(Deref(sar.ResourceAttributes).Name, cfg.ProtectedPrefix)

\* Faulty variant: the gate takes every verb that starts with "delete".
ProtectedDelete_VerbPrefix(cfg, sar) ==
    /\ sar.ResourceAttributes # Nil
    /\ HasPrefix(Deref(sar.ResourceAttributes).Verb, Delete)
    /\ HasPrefix(Deref(sar.ResourceAttributes).Name, cfg.ProtectedPrefix)

ProtectedDelete(cfg, sar) ==
    /\ sar.ResourceAttributes # Nil
    /\ Deref(sar.ResourceAttributes).Verb = Delete
    /\ HasPrefix(Deref(sar.ResourceAttributes).Name, cfg.ProtectedPrefix)

\* The loop over sar.Spec.Groups looking for system:masters.
InMastersGroup_FirstOnly(groups) == Len(groups) > 0 /\ groups[1] = SystemMasters

\* Faulty variant: system:masters has to be listed exactly once.
InMastersGroup_ExactlyOnce(groups) ==
    Cardinality({k \in 1..Len(groups) : groups[k] = SystemMasters}) = 1

InMastersGroup(groups) == \E k \in 1..Len(groups) : groups[k] = SystemMasters

DenyDeleteReason(cfg, user) ==
    <<"User '">> \o user \o <<"' is not authorized to delete resources with prefix '">>
        \o cfg.ProtectedPrefix \o <<"'. Only '">> \o cfg.PrivilegedUser
        \o <<"' users or members of system:masters/system:nodes groups can perform this operation.">>

\* Faulty variants of the body of the protected-delete branch.
DeleteGate_BasicMessage(cfg, sar) ==
    IF sar.User = cfg.PrivilegedUser
    THEN Decision(TRUE, <<"User '">> \o sar.User
             \o <<"' is authorized to delete protected resources as a privileged user">>)
    ELSE IF InMastersGroup(sar.Groups)
    THEN Decision(TRUE, <<"User '">> \o sar.User
             \o <<"' is authorized to delete protected resources as a member of system:masters group">>)
    ELSE Decision(FALSE, <<"User '">> \o sar.User
             \o <<"' is not authorized to delete resources with prefix '">>
             \o cfg.ProtectedPrefix \o <<"'. Only '">> \o cfg.PrivilegedUser
             \o <<"' users can perform this operation.">>)

DeleteGate_GroupsFirst(cfg, sar) ==
    IF InMastersGroup(sar.Groups)
    THEN Decision(TRUE, <<"User '">> \o sar.User
             \o <<"' is authorized to delete protected resources as a member of system:masters group">>)
    ELSE IF sar.User = cfg.PrivilegedUser
    THEN Decision(TRUE, <<"User '">> \o sar.User
             \o <<"' is authorized to delete protected resources as a privileged user">>)
    ELSE Decision(FALSE, DenyDeleteReason(cfg, sar.User))

DeleteGate_NodesBypass(cfg, sar) ==
    IF sar.User = cfg.PrivilegedUser
    THEN Decision(TRUE, <<"User '">> \o sar.User
             \o <<"' is authorized to delete protected resources as a privileged user">>)
    ELSE IF \E k \in 1..Len(sar.Groups) : sar.Groups[k] \in {SystemMasters, SystemNodes}
    THEN Decision(TRUE, <<"User '">> \o sar.User
             \o <<"' is authorized to delete protected resources as a member of system:masters group">>)
    ELSE Decision(FALSE, DenyDeleteReason(cfg, sar.User))

\* The body of the protected-delete branch of ProcessRequest.
DeleteGate(cfg, sar) ==
    IF sar.User = cfg.PrivilegedUser
    THEN Decision(TRUE, <<"User '">> \o sar.User
             \o <<"' is authorized to delete protected resources as a privileged user">>)
    ELSE IF InMastersGroup(sar.Groups)
    THEN Decision(TRUE, <<"User '">> \o sar.User
             \o <<"' is authorized to delete protected resources as a member of system:masters group">>)
    ELSE Decision(FALSE, DenyDeleteReason(cfg, sar.User))

\* Faulty variant: the built-in guards run before the CEL rules.
ProcessRequest_GuardsFirst(a, sar) ==
    IF IndirectImpersonation(sar)
    THEN Decision(FALSE, <<"Impersonation of system:masters group is not allowed">>)
    ELSE IF DirectImpersonation(sar)
    THEN Decision(FALSE, <<"Direct impersonation of system:masters group is not allowed">>)
    ELSE LET cel == Evaluate(a.celEval, sar) IN
    IF ~cel.allowed THEN Decision(FALSE, cel.reason)
    ELSE IF ProtectedDelete(a.config, sar) THEN DeleteGate(a.config, sar)
    ELSE Decision(TRUE, <<"Request allowed by authorization webhook">>)

\* Faulty variant: the protected-delete gate runs before the impersonation guards.
ProcessRequest_DeleteGateFirst(a, sar) ==
    LET cel == Evaluate(a.celEval, sar) IN
    IF ~cel.allowed THEN Decision(FALSE, cel.reason)
    ELSE IF ProtectedDelete(a.config, sar) THEN DeleteGate(a.config, sar)
    ELSE IF IndirectImpersonation(sar)
    THEN Decision(FALSE, <<"Impersonation of system:masters group is not allowed">>)
    ELSE IF DirectImpersonation(sar)
    THEN Decision(FALSE, <<"Direct impersonation of system:masters group is not allowed">>)
    ELSE Decision(TRUE, <<"Request allowed by authorization webhook">>)

\* Faulty variant: a rule denial is reported without the index of the rule.
ProcessRequest_UnindexedRuleReason(a, sar) ==
    LET cel == Evaluate(a.celEval, sar) IN
    IF ~cel.allowed THEN Decision(FALSE, <<"Request denied by CEL rules">>)
    ELSE IF IndirectImpersonation(sar)
    THEN Decision(FALSE, <<"Impersonation of system:masters group is not allowed">>)
    ELSE IF DirectImpersonation(sar)
    THEN Decision(FALSE, <<"Direct impersonation of system:masters group is not allowed">>)
    ELSE IF ProtectedDelete(a.config, sar) THEN DeleteGate(a.config, sar)
    ELSE Decision(TRUE, <<"Request allowed by authorization webhook">>)

\* Faulty variant: the default allow repeats the reason of the rule stage.
ProcessRequest_RuleReasonEscapes(a, sar) ==
    LET cel == Evaluate(a.celEval, sar) IN
    IF ~cel.allowed THEN Decision(FALSE, cel.reason)
    ELSE IF IndirectImpersonation(sar)
    THEN Decision(FALSE, <<"Impersonation of system:masters group is not allowed">>)
    ELSE IF DirectImpersonation(sar)
    THEN Decision(FALSE, <<"Direct impersonation of system:masters group is not allowed">>)
    ELSE IF ProtectedDelete(a.config, sar) THEN DeleteGate(a.config, sar)
    ELSE Decision(TRUE, cel.reason)

\* Faulty variant: the direct guard is tested before the indirect one.
ProcessRequest_DirectGuardFirst(a, sar) ==
    LET cel == Evaluate(a.celEval, sar) IN
    IF ~cel.allowed THEN Decision(FALSE, cel.reason)
    ELSE IF DirectImpersonation(sar)
    THEN Decision(FALSE, <<"Direct impersonation of system:masters group is not allowed">>)
    ELSE IF IndirectImpersonation(sar)
    THEN Decision(FALSE, <<"Impersonation of system:masters group is not allowed">>)
    ELSE IF ProtectedDelete(a.config, sar) THEN DeleteGate(a.config, sar)
    ELSE Decision(TRUE, <<"Request allowed by authorization webhook">>)

\* Faulty variant: rules that all pass allow the request by themselves.
ProcessRequest_RulesOverride(a, sar) ==
    LET cel == Evaluate(a.celEval, sar) IN
    IF ~cel.allowed THEN Decision(FALSE, cel.reason)
    ELSE IF Len(a.celEval.programs) > 0
    THEN Decision(TRUE, <<"Request allowed by authorization webhook">>)
    ELSE IF IndirectImpersonation(sar)
    THEN Decision(FALSE, <<"Impersonation of system:masters group is not allowed">>)
    ELSE IF DirectImpersonation(sar)
    THEN Decision(FALSE, <<"Direct impersonation of system:masters group is not allowed">>)
    ELSE IF ProtectedDelete(a.config, sar) THEN DeleteGate(a.config, sar)
    ELSE Decision(TRUE, <<"Request allowed by authorization webhook">>)

ProcessRequest(a, sar) ==
    LET cel == Evaluate(a.celEval, sar) IN
    IF ~cel.allowed THEN Decision(FALSE, cel.reason)
    ELSE IF IndirectImpersonation(sar)
    THEN Decision(FALSE, <<"Impersonation of system:masters group is not allowed">>)
    ELSE IF DirectImpersonation(sar)
    THEN Decision(FALSE, <<"Direct impersonation of system:masters group is not allowed">>)
    ELSE IF ProtectedDelete(a.config, sar) THEN DeleteGate(a.config, sar)
    ELSE Decision(TRUE, <<"Request allowed by authorization webhook">>)

(***************************************************************************)
(* package config.  The world Load reads: the name of the YAML file, the   *)
(* paths that exist, and the content of the YAML file, which does not      *)
(* parse or is a mapping from its keys to their values.                    *)
(***************************************************************************)
DefaultConfig ==
    [Port |-> <<"8080">>,
     TLSCertFile |-> EmptyString,
     TLSKeyFile |-> EmptyString,
     ProtectedPrefix |-> <<"aks-automatic-">>,
     PrivilegedUser |-> <<"support">>,
     SupportUser |-> <<"support">>,
     CELRules |-> <<>>]

\* yaml.Unmarshal into a Config: a key that is left out gives the zero value.
Unmarshal(data) ==
    IF data.kind # "mapping" THEN [err |-> Ptr("yaml: unmarshal errors"), cfg |-> Nil]
    ELSE [err |-> Nil,
          cfg |-> Ptr([Port |-> Field(data.value, "port", EmptyString),
                       TLSCertFile |-> Field(data.value, "tlsCertFile", EmptyString),
                       TLSKeyFile |-> Field(data.value, "tlsKeyFile", EmptyString),
                       ProtectedPrefix |-> Field(data.value, "protectedPrefix", EmptyString),
                       PrivilegedUser |-> Field(data.value, "privilegedUser", EmptyString),
                       SupportUser |-> Field(data.value, "supportUser", EmptyString),
                       CELRules |-> Field(data.value, "celRules", <<>>)])]

\* Config.loadFromYAML: the configuration with the fields the file sets.
loadFromYAML(c, filename, world) ==
    IF filename \notin world.files THEN [err |-> Ptr("no such file or directory"), cfg |-> c]
    ELSE LET u == Unmarshal(world.yaml) IN
         IF u.err # Nil THEN [err |-> u.err, cfg |-> c]
         ELSE LET yamlConfig == Deref(u.cfg) IN
              [err |-> Nil,
               cfg |-> [Port |-> IF yamlConfig.Port # EmptyString
                                 THEN yamlConfig.Port ELSE c.Port,
                        TLSCertFile |-> IF yamlConfig.TLSCertFile # EmptyString
                                        THEN yamlConfig.TLSCertFile ELSE c.TLSCertFile,
                        TLSKeyFile |-> IF yamlConfig.TLSKeyFile # EmptyString
                                       THEN yamlConfig.TLSKeyFile ELSE c.TLSKeyFile,
                        ProtectedPrefix |-> IF yamlConfig.ProtectedPrefix # EmptyString
                                            THEN yamlConfig.ProtectedPrefix
                                            ELSE c.ProtectedPrefix,
                        PrivilegedUser |-> IF yamlConfig.PrivilegedUser # EmptyString
                                           THEN yamlConfig.PrivilegedUser
                                           ELSE c.PrivilegedUser,
                        SupportUser |-> c.SupportUser,
                        CELRules |-> IF Len(yamlConfig.CELRules) > 0
                                     THEN yamlConfig.CELRules ELSE c.CELRules]]

\* The built configuration after the optional YAML file.
Merged(configFile, world) ==
    IF configFile # EmptyString
    THEN loadFromYAML(DefaultConfig, configFile, world)
    ELSE [err |-> Nil, cfg |-> DefaultConfig]

\* Faulty variant: the key file is not looked up.
Load_KeyNotStatted(configFile, world) ==
    LET m == Merged(configFile, world) IN
    IF m.err # Nil
    THEN [cfg |-> Nil,
          err |-> Ptr(<<"failed to load config from YAML file: ", Deref(m.err)>>)]
    ELSE IF m.cfg.TLSCertFile = EmptyString \/ m.cfg.TLSKeyFile = EmptyString
    THEN [cfg |-> Nil,
          err |-> Ptr(<<"tlsCertFile and tlsKeyFile are required in configuration">>)]
    ELSE IF m.cfg.TLSCertFile \notin world.files
    THEN [cfg |-> Nil,
          err |-> Ptr(<<"TLS certificate file not found: ">> \o m.cfg.TLSCertFile)]
    ELSE [cfg |-> Ptr(m.cfg), err |-> Nil]

\* Load: [cfg, err], cfg = Nil when err is set.
Load(configFile, world) ==
    LET m == Merged(configFile, world) IN
    IF m.err # Nil
    THEN [cfg |-> Nil,
          err |-> Ptr(<<"failed to load config from YAML file: ", Deref(m.err)>>)]
    ELSE IF m.cfg.TLSCertFile = EmptyString \/ m.cfg.TLSKeyFile = EmptyString
    THEN [cfg |-> Nil,
          err |-> Ptr(<<"tlsCertFile and tlsKeyFile are required in configuration">>)]
    ELSE IF m.cfg.TLSCertFile \notin world.files
    THEN [cfg |-> Nil,
          err |-> Ptr(<<"TLS certificate file not found: ">> \o m.cfg.TLSCertFile)]
    ELSE IF m.cfg.TLSKeyFile \notin world.files
    THEN [cfg |-> Nil,
          err |-> Ptr(<<"TLS key file not found: ">> \o m.cfg.TLSKeyFile)]
    ELSE [cfg |-> Ptr(m.cfg), err |-> Nil]

(***************************************************************************)
(* package main: the basic server, which decides by the delete gate alone. *)
(***************************************************************************)
\* Faulty variant: members of system:masters pass the gate as well.
processAuthRequest_GroupBypass(s, sar) ==
    IF /\ sar.ResourceAttributes # Nil
       /\ Deref(sar.ResourceAttributes).Verb = Delete
       /\ HasPrefix(Deref(sar.ResourceAttributes).Name, s.config.ProtectedPrefix)
       /\ sar.User # s.config.PrivilegedUser
       /\ ~InMastersGroup(sar.Groups)
    THEN Decision(FALSE,
             <<"User '">> \o sar.User
                 \o <<"' is not authorized to delete resources with prefix '">>
                 \o s.config.ProtectedPrefix \o <<"'. Only '">> \o s.config.PrivilegedUser
                 \o <<"' users can perform this operation.">>)
    ELSE Decision(TRUE, <<"Request allowed by authorization webhook">>)

\* WebhookServer.processAuthRequest
processAuthRequest(s, sar) ==
    IF /\ sar.ResourceAttributes # Nil
       /\ Deref(sar.ResourceAttributes).Verb = Delete
       /\ HasPrefix(Deref(sar.ResourceAttributes).Name, s.config.ProtectedPrefix)
       /\ sar.User # s.config.PrivilegedUser
    THEN Decision(FALSE,
             <<"User '">> \o sar.User
                 \o <<"' is not authorized to delete resources with prefix '">>
                 \o s.config.ProtectedPrefix \o <<"'. Only '">> \o s.config.PrivilegedUser
                 \o <<"' users can perform this operation.">>)
    ELSE Decision(TRUE, <<"Request allowed by authorization webhook">>)

(***************************************************************************)
(* package server.  A request body is unreadable, empty, not JSON, or a    *)
(* JSON object; a JSON object is a function from its keys to their values, *)
(* a key left out by omitempty is not in its domain and decodes to the     *)
(* zero value of its field.                                                *)
(***************************************************************************)
\* json.Marshal of the attributes of a review (all fields are omitempty).
MarshalAttributes(fields) ==
    [k \in {f \in DOMAIN fields : fields[f] # EmptyString} |-> fields[k]]

\* json.Marshal of a SubjectAccessReview request, as the API server sends it.
MarshalRequest(r) ==
    LET keys == (IF r.User # EmptyString THEN {"user"} ELSE {})
                \cup (IF Len(r.Groups) > 0 THEN {"groups"} ELSE {})
                \cup (IF r.ResourceAttributes # Nil THEN {"resourceAttributes"} ELSE {})
                \cup (IF r.NonResourceAttributes # Nil THEN {"nonResourceAttributes"} ELSE {})
        spec == [k \in keys |->
                    CASE k = "user" -> r.User
                      [] k = "groups" -> r.Groups
                      [] k = "resourceAttributes" ->
                           LET a == Deref(r.ResourceAttributes) IN
                           MarshalAttributes(
                               [group |-> a.Group, version |-> a.Version,
                                resource |-> a.Resource, subresource |-> a.Subresource,
                                namespace |-> a.Namespace, name |-> a.Name,
                                verb |-> a.Verb])
                      [] k = "nonResourceAttributes" ->
                           LET a == Deref(r.NonResourceAttributes) IN
                           MarshalAttributes([path |-> a.Path, verb |-> a.Verb])]
    IN  [kind |-> "json", value |-> [spec |-> spec]]

\* The reviews the API server posts in the model.
PostedReviews ==
    {r \in SubjectAccessReviews :
        /\ r.Groups \in {<<>>, <<SystemMasters>>}
        /\ r.ResourceAttributes # Nil
             => GuardedFieldsOff(Deref(r.ResourceAttributes)) \in {0, 3}
        /\ r.NonResourceAttributes # Nil
             => Deref(r.NonResourceAttributes).Path = ImpersonationPath}

Bodies ==
    {[kind |-> "unreadable"], [kind |-> "empty"], [kind |-> "malformed"],
     [kind |-> "json", value |-> EmptyObject]}
    \cup {MarshalRequest(r) : r \in PostedReviews}

HttpRequests == [Method : {"POST", "GET"}, Body : Bodies]

\* json.NewDecoder(...).Decode(&sar): the decoded review, or an error.
Decode(body) ==
    IF body.kind # "json" THEN [err |-> Ptr(IF body.kind = "empty" THEN "EOF"
                                            ELSE "invalid character"),
                                sar |-> Nil]
    ELSE LET spec == Field(body.value, "spec", EmptyObject)
             ra == Field(spec, "resourceAttributes", EmptyObject)
             nra == Field(spec, "nonResourceAttributes", EmptyObject) IN
         [err |-> Nil,
          sar |-> Ptr(
            [User |-> Field(spec, "user", EmptyString),
             Groups |-> Field(spec, "groups", <<>>),
             ResourceAttributes |->
                IF "resourceAttributes" \in DOMAIN spec
                THEN Ptr([Group |-> Field(ra, "group", EmptyString),
                          Version |-> Field(ra, "version", EmptyString),
                          Resource |-> Field(ra, "resource", EmptyString),
                          Subresource |-> Field(ra, "subresource", EmptyString),
                          Namespace |-> Field(ra, "namespace", EmptyString),
                          Name |-> Field(ra, "name", EmptyString),
                          Verb |-> Field(ra, "verb", EmptyString)])
                ELSE Nil,
             NonResourceAttributes |->
                IF "nonResourceAttributes" \in DOMAIN spec
                THEN Ptr([Path |-> Field(nra, "path", EmptyString),
                          Verb |-> Field(nra, "verb", EmptyString)])
                ELSE Nil])]

\* Faulty variant: Denied repeats Allowed.
ReviewResponse_DeniedRepeatsAllowed(allowed, reason) ==
    [APIVersion |-> <<"authorization.k8s.io/v1">>,
     Kind |-> <<"SubjectAccessReview">>,
     Status |-> [Allowed |-> allowed, Denied |-> allowed, Reason |-> reason]]

\* The SubjectAccessReview handleAuthorize answers with.
ReviewResponse(allowed, reason) ==
    [APIVersion |-> <<"authorization.k8s.io/v1">>,
     Kind |-> <<"SubjectAccessReview">>,
     Status |-> [Allowed |-> allowed, Denied |-> ~allowed, Reason |-> reason]]

\* json.Marshal of the response: denied and reason are omitempty.
MarshalResponse(response) ==
    LET st == response.Status
        keys == {"allowed"} \cup (IF st.Denied THEN {"denied"} ELSE {})
                \cup (IF st.Reason # EmptyString THEN {"reason"} ELSE {}) IN
    [kind |-> "json",
     value |-> [apiVersion |-> response.APIVersion,
                kind |-> response.Kind,
                metadata |-> [creationTimestamp |-> "null"],
                spec |-> EmptyObject,
                status |-> [k \in keys |->
                               CASE k = "allowed" -> st.Allowed
                                 [] k = "denied" -> st.Denied
                                 [] k = "reason" -> st.Reason]]]

\* http.Error
HttpError(text, code) == [Code |-> code, Body |-> [kind |-> "text", text |-> text]]

\* Faulty variant: the method is not checked.
handleAuthorize_AnyMethod(s, r) ==
    IF r.Body.kind = "unreadable"
    THEN [response |-> HttpError("Error reading request", 400), sar |-> Nil, decision |-> Nil]
    ELSE LET d == Decode(r.Body) IN
    IF d.err # Nil
    THEN [response |-> HttpError("Invalid request body", 400), sar |-> Nil, decision |-> Nil]
    ELSE LET result == ProcessRequest(Deref(s.authorizer), Deref(d.sar)) IN
         [response |-> [Code |-> 200,
                        Body |-> MarshalResponse(ReviewResponse(result.allowed, result.reason))],
          sar |-> d.sar,
          decision |-> Ptr(result)]

\* handleAuthorize: the response written, and the review and decision of the
\* call of ProcessRequest when there is one.
handleAuthorize(s, r) ==
    IF r.Method # "POST"
    THEN [response |-> HttpError("Method not allowed", 405), sar |-> Nil, decision |-> Nil]
    ELSE IF r.Body.kind = "unreadable"
    THEN [response |-> HttpError("Error reading request", 400), sar |-> Nil, decision |-> Nil]
    ELSE LET d == Decode(r.Body) IN
    IF d.err # Nil
    THEN [response |-> HttpError("Invalid request body", 400), sar |-> Nil, decision |-> Nil]
    ELSE LET result == ProcessRequest(Deref(s.authorizer), Deref(d.sar)) IN
         [response |-> [Code |-> 200,
                        Body |-> MarshalResponse(ReviewResponse(result.allowed, result.reason))],
          sar |-> d.sar,
          decision |-> Ptr(result)]

(***************************************************************************)
(* ProcessRequest as the steps of one goroutine.  net/http runs every      *)
(* request in a goroutine of its own, so calls on the one Authorizer       *)
(* interleave between the reads of a.celEval, of each program and of       *)
(* a.config.  A step reads the Authorizer as it is when the step is taken  *)
(* and yields the Authorizer it leaves behind and the call's new position. *)
(***************************************************************************)
Calls == 1..MaxCalls

IdleCall == [pc |-> "idle", sar |-> Nil, i |-> 0, decision |-> Nil]

DoneCall(c, d) == [pc |-> "done", sar |-> c.sar, i |-> c.i, decision |-> Ptr(d)]

\* The reviews concurrent callers send: a delete of a protected resource by
\* an unprivileged user, a direct impersonation, and a delete by a member of
\* system:masters.
ProtectedPod ==
    [Group |-> EmptyString, Version |-> <<"v1">>, Resource |-> <<"pods">>,
     Subresource |-> EmptyString, Namespace |-> <<"prod">>,
     Name |-> <<"test-", "resource">>, Verb |-> Delete]

ConcurrentReviews ==
    {[User |-> <<"test-user">>, Groups |-> <<>>,
      ResourceAttributes |-> Ptr(ProtectedPod), NonResourceAttributes |-> Nil],
     [User |-> <<"admin">>, Groups |-> <<SystemMasters>>,
      ResourceAttributes |-> Nil,
      NonResourceAttributes |-> Ptr([Path |-> ImpersonationPath, Verb |-> <<"impersonate">>])],
     [User |-> <<"admin">>, Groups |-> <<SystemMasters>>,
      ResourceAttributes |-> Ptr(ProtectedPod), NonResourceAttributes |-> Nil]}

\* Entry of ProcessRequest and of Evaluate: no program, no rule stage.
EnterStep(a, r) ==
    [a |-> a,
     call |-> IF Len(a.celEval.programs) = 0
              THEN [pc |-> "builtin", sar |-> Ptr(r), i |-> 0, decision |-> Nil]
              ELSE [pc |-> "rules", sar |-> Ptr(r), i |-> 1, decision |-> Nil]]

\* Faulty variant: a program that passed is removed from the evaluator.
EvaluateStep_ConsumesProgram(a, c) ==
    LET programs == a.celEval.programs IN
    IF c.i > Len(programs)
    THEN [a |-> a, call |-> [c EXCEPT !.pc = "builtin"]]
    ELSE LET result == Eval(programs[c.i], EvaluateVars(Deref(c.sar))) IN
         IF result.t = "error"
         THEN [a |-> a,
               call |-> DoneCall(c, Decision(FALSE, <<"Error evaluating CEL rule ">> \o Itoa(c.i - 1)))]
         ELSE IF result.t # "bool"
         THEN [a |-> a,
               call |-> DoneCall(c, Decision(FALSE, <<"Invalid result from CEL rule ">> \o Itoa(c.i - 1)))]
         ELSE IF ~result.v
         THEN [a |-> a,
               call |-> DoneCall(c, Decision(FALSE, <<"Request denied by CEL rule ">> \o Itoa(c.i - 1)))]
         ELSE [a |-> [a EXCEPT !.celEval.programs =
                         [k \in 1..(Len(programs) - 1) |->
                             IF k < c.i THEN programs[k] ELSE programs[k + 1]]],
               call |-> c]

\* One iteration of the loop of Evaluate: program c.i on the review.
EvaluateStep(a, c) ==
    LET programs == a.celEval.programs IN
    IF c.i > Len(programs)
    THEN [a |-> a, call |-> [c EXCEPT !.pc = "builtin"]]
    ELSE LET result == Eval(programs[c.i], EvaluateVars(Deref(c.sar))) IN
         IF result.t = "error"
         THEN [a |-> a,
               call |-> DoneCall(c, Decision(FALSE, <<"Error evaluating CEL rule ">> \o Itoa(c.i - 1)))]
         ELSE IF result.t # "bool"
         THEN [a |-> a,
               call |-> DoneCall(c, Decision(FALSE, <<"Invalid result from CEL rule ">> \o Itoa(c.i - 1)))]
         ELSE IF ~result.v
         THEN [a |-> a,
               call |-> DoneCall(c, Decision(FALSE, <<"Request denied by CEL rule ">> \o Itoa(c.i - 1)))]
         ELSE [a |-> a, call |-> [c EXCEPT !.i = c.i + 1]]

\* The built-in checks of ProcessRequest, reading a.config.
BuiltinChecks(cfg, r) ==
    IF IndirectImpersonation(r)
    THEN Decision(FALSE, <<"Impersonation of system:masters group is not allowed">>)
    ELSE IF DirectImpersonation(r)
    THEN Decision(FALSE, <<"Direct impersonation of system:masters group is not allowed">>)
    ELSE IF ProtectedDelete(cfg, r) THEN DeleteGate(cfg, r)
    ELSE Decision(TRUE, <<"Request allowed by authorization webhook">>)

\* Faulty variant: a denied delete clears the protected prefix.
BuiltinStep_ClearsPrefix(a, c) ==
    LET d == BuiltinChecks(a.config, Deref(c.sar)) IN
    [a |-> IF ~d.allowed /\ ProtectedDelete(a.config, Deref(c.sar))
           THEN [a EXCEPT !.config.ProtectedPrefix = EmptyString]
           ELSE a,
     call |-> DoneCall(c, d)]

\* The built-in checks as the last step of a call.
BuiltinStep(a, c) ==
    [a |-> a, call |-> DoneCall(c, BuiltinChecks(a.config, Deref(c.sar)))]

(***************************************************************************)
(* State: the configuration, the Authorizer built from it, the review in   *)
(* flight with its decision, the HTTP request in flight with its response, *)
(* the calls of ProcessRequest running concurrently, for each review the   *)
(* first decision a concurrent call returned for it, and the second call a *)
(* decision is compared with.                                              *)
(***************************************************************************)
VARIABLES config, authorizer, phase, startupErr, sar, decision, httpRequest, response,
          calls, seen, peer, env, loadResult

vars == <<config, authorizer, phase, startupErr, sar, decision, httpRequest, response,
          calls, seen, peer, env, loadResult>>

Configs ==
    [ProtectedPrefix : PrefixValues,
     PrivilegedUser : PrivilegedUserValues,
     CELRules : SeqsUpTo(RuleExpressions, MaxRules)]

Init ==
    /\ config \in Configs
    /\ authorizer = Nil
    /\ phase = "start"
    /\ startupErr = Nil
    /\ sar = Nil
    /\ decision = Nil
    /\ httpRequest = Nil
    /\ response = Nil
    /\ calls = [p \in Calls |-> IdleCall]
    /\ seen = [r \in ConcurrentReviews |-> Nil]
    /\ peer = Nil
    /\ env = Nil
    /\ loadResult = Nil

\* Startup: NewEvaluator on the configured rules, then NewAuthorizer; a rule
\* that does not compile ends the process.
Startup ==
    /\ phase = "start"
    /\ LET e == NewEvaluator(config.CELRules) IN
       IF e.err # Nil
       THEN /\ phase' = "fatal"
            /\ authorizer' = Nil
            /\ startupErr' = e.err
       ELSE /\ phase' = "serving"
            /\ authorizer' = Ptr([config |-> config, celEval |-> Deref(e.eval)])
            /\ startupErr' = Nil
    /\ UNCHANGED <<config, sar, decision, httpRequest, response, calls, seen, peer, env, loadResult>>

\* One call of Authorizer.ProcessRequest on a review.
Authorize ==
    /\ phase = "serving"
    /\ sar = Nil
    /\ httpRequest = Nil
    /\ \E r \in SubjectAccessReviews :
          /\ sar' = Ptr(r)
          /\ decision' = Ptr(ProcessRequest(Deref(authorizer), r))
    /\ UNCHANGED <<config, authorizer, phase, startupErr, httpRequest, response, calls, seen, peer,
                   env, loadResult>>

\* One HTTP request served by WebhookServer.handleAuthorize.
HandleAuthorize ==
    /\ phase = "serving"
    /\ sar = Nil
    /\ httpRequest = Nil
    /\ \E r \in HttpRequests :
          LET h == handleAuthorize([config |-> config, authorizer |-> authorizer], r) IN
          /\ httpRequest' = Ptr(r)
          /\ response' = Ptr(h.response)
          /\ sar' = h.sar
          /\ decision' = h.decision
    /\ UNCHANGED <<config, authorizer, phase, startupErr, calls, seen, peer, env, loadResult>>

\* The call has returned; its request, review, decision and response are
\* dropped.
Return ==
    /\ phase = "serving"
    /\ sar # Nil \/ httpRequest # Nil
    /\ sar' = Nil
    /\ decision' = Nil
    /\ httpRequest' = Nil
    /\ response' = Nil
    /\ peer' = Nil
    /\ UNCHANGED <<config, authorizer, phase, startupErr, calls, seen, env, loadResult>>

Next == Startup \/ Authorize \/ HandleAuthorize \/ Return

Spec == Init /\ [][Next]_vars

(***************************************************************************)
(* Concurrent calls of ProcessRequest on the one Authorizer.               *)
(***************************************************************************)
ConcurrentConfigs ==
    {c \in Configs : \A k \in 1..Len(c.CELRules) :
                        c.CELRules[k] \in {RuleInGroups, RuleVerbDelete}}

InitConcurrent ==
    /\ config \in ConcurrentConfigs
    /\ authorizer = Nil
    /\ phase = "start"
    /\ startupErr = Nil
    /\ sar = Nil
    /\ decision = Nil
    /\ httpRequest = Nil
    /\ response = Nil
    /\ calls = [p \in Calls |-> IdleCall]
    /\ seen = [r \in ConcurrentReviews |-> Nil]
    /\ peer = Nil
    /\ env = Nil
    /\ loadResult = Nil

\* The first decision returned for each review.
Record(c) ==
    IF c.pc = "done" /\ seen[Deref(c.sar)] = Nil
    THEN [seen EXCEPT ![Deref(c.sar)] = c.decision]
    ELSE seen

\* A goroutine enters ProcessRequest with a review.
BeginCall(p) ==
    /\ phase = "serving"
    /\ calls[p].pc = "idle"
    /\ \E r \in ConcurrentReviews :
          LET step == EnterStep(Deref(authorizer), r) IN
          /\ authorizer' = Ptr(step.a)
          /\ calls' = [calls EXCEPT ![p] = step.call]
    /\ UNCHANGED <<config, phase, startupErr, sar, decision, httpRequest, response, seen, peer,
                   env, loadResult>>

\* A goroutine evaluates its next program.
RuleStep(p) ==
    /\ phase = "serving"
    /\ calls[p].pc = "rules"
    /\ LET step == EvaluateStep(Deref(authorizer), calls[p]) IN
       /\ authorizer' = Ptr(step.a)
       /\ calls' = [calls EXCEPT ![p] = step.call]
       /\ seen' = Record(step.call)
    /\ UNCHANGED <<config, phase, startupErr, sar, decision, httpRequest, response,
                   peer, env, loadResult>>

\* A goroutine runs the built-in checks and has its decision.
GuardStep(p) ==
    /\ phase = "serving"
    /\ calls[p].pc = "builtin"
    /\ LET step == BuiltinStep(Deref(authorizer), calls[p]) IN
       /\ authorizer' = Ptr(step.a)
       /\ calls' = [calls EXCEPT ![p] = step.call]
       /\ seen' = Record(step.call)
    /\ UNCHANGED <<config, phase, startupErr, sar, decision, httpRequest, response,
                   peer, env, loadResult>>

\* ProcessRequest returns to its caller.
EndCall(p) ==
    /\ phase = "serving"
    /\ calls[p].pc = "done"
    /\ calls' = [calls EXCEPT ![p] = IdleCall]
    /\ UNCHANGED <<config, authorizer, phase, startupErr, sar, decision, httpRequest,
                   response, seen, peer, env, loadResult>>

NextConcurrent ==
    \/ Startup
    \/ \E p \in Calls : BeginCall(p)
    \/ \E p \in Calls : RuleStep(p)
    \/ \E p \in Calls : GuardStep(p)
    \/ \E p \in Calls : EndCall(p)

SpecConcurrent == InitConcurrent /\ [][NextConcurrent]_vars

(***************************************************************************)
(* The engine on reviews of every verb, and on pairs of calls: the same    *)
(* review with its groups rearranged, and the same review under a rule     *)
(* list with further rules appended.                                       *)
(***************************************************************************)
EngineVerbValues == {Delete, DeleteCollection, <<"update">>, <<"patch">>}

EngineRuleExpressions == {RuleEmpty, RuleInGroups, RuleVerbDelete}

EngineReviews ==
    [User : UserValues,
     Groups : SeqsUpTo(GroupValues, MaxGroups),
     ResourceAttributes :
        {Nil} \cup {Ptr(r) : r \in {a \in [Group : {EmptyString, AuthenticationGroup},
                                          Version : {<<"v1">>},
                                          Resource : {<<"pods">>, UserExtras},
                                          Subresource : {EmptyString, GroupsSubresource},
                                          Namespace : {<<"prod">>},
                                          Name : NameValues,
                                          Verb : EngineVerbValues] :
                                      GuardedFieldsOff(a) \in {0, 3}}},
     NonResourceAttributes :
        {Nil, Ptr([Path |-> ImpersonationPath, Verb |-> <<"impersonate">>])}]

EngineConfigs ==
    [ProtectedPrefix : PrefixValues,
     PrivilegedUser : PrivilegedUserValues,
     CELRules : SeqsUpTo(EngineRuleExpressions, MaxRules)]

InitEngine ==
    /\ config \in EngineConfigs
    /\ authorizer = Nil
    /\ phase = "start"
    /\ startupErr = Nil
    /\ sar = Nil
    /\ decision = Nil
    /\ httpRequest = Nil
    /\ response = Nil
    /\ calls = [p \in Calls |-> IdleCall]
    /\ seen = [r \in ConcurrentReviews |-> Nil]
    /\ peer = Nil
    /\ env = Nil
    /\ loadResult = Nil

Range(s) == {s[k] : k \in DOMAIN s}

\* One call of ProcessRequest on a review of any verb.
AuthorizeVerb ==
    /\ phase = "serving"
    /\ sar = Nil
    /\ \E r \in EngineReviews :
          /\ sar' = Ptr(r)
          /\ decision' = Ptr(ProcessRequest(Deref(authorizer), r))
    /\ UNCHANGED <<config, authorizer, phase, startupErr, httpRequest, response, calls,
                   seen, peer, env, loadResult>>

\* Two calls of ProcessRequest, on an Authorizer without rules, on reviews
\* that differ in the order or the multiplicity of their groups only.
AuthorizePermuted ==
    /\ phase = "serving"
    /\ sar = Nil
    /\ Len(Deref(authorizer).celEval.programs) = 0
    /\ \E r \in EngineReviews, groups \in SeqsUpTo(GroupValues, MaxGroups) :
          /\ groups # r.Groups
          /\ Range(groups) = Range(r.Groups)
          /\ sar' = Ptr(r)
          /\ decision' = Ptr(ProcessRequest(Deref(authorizer), r))
          /\ peer' = Ptr([kind |-> "permuted",
                          sar |-> [r EXCEPT !.Groups = groups],
                          rules |-> config.CELRules,
                          decision |-> ProcessRequest(Deref(authorizer),
                                                      [r EXCEPT !.Groups = groups])])
    /\ UNCHANGED <<config, authorizer, phase, startupErr, httpRequest, response, calls,
                   seen, env, loadResult>>

\* A call of ProcessRequest on a review, and a call on the same review of
\* an Authorizer built from the rule list with further rules appended.
AuthorizeExtended ==
    /\ phase = "serving"
    /\ sar = Nil
    /\ \E r \in {e \in EngineReviews : Len(e.Groups) <= 1},
          more \in SeqsUpTo({RuleInGroups, RuleVerbDelete}, MaxRules) :
          LET e == NewEvaluator(config.CELRules \o more) IN
          /\ more # <<>>
          /\ e.err = Nil
          /\ sar' = Ptr(r)
          /\ decision' = Ptr(ProcessRequest(Deref(authorizer), r))
          /\ peer' = Ptr([kind |-> "extended",
                          sar |-> r,
                          rules |-> config.CELRules \o more,
                          decision |-> ProcessRequest(
                              [config |-> config, celEval |-> Deref(e.eval)], r)])
    /\ UNCHANGED <<config, authorizer, phase, startupErr, httpRequest, response, calls,
                   seen, env, loadResult>>

NextEngine == Startup \/ AuthorizeVerb \/ AuthorizePermuted \/ AuthorizeExtended \/ Return

SpecEngine == InitEngine /\ [][NextEngine]_vars

(***************************************************************************)
(* The basic server: a WebhookServer with its configuration and no         *)
(* Authorizer.                                                             *)
(***************************************************************************)
BasicConfigs ==
    [ProtectedPrefix : PrefixValues, PrivilegedUser : UserValues, CELRules : {<<>>}]

InitBasic ==
    /\ config \in BasicConfigs
    /\ authorizer = Nil
    /\ phase = "serving"
    /\ startupErr = Nil
    /\ sar = Nil
    /\ decision = Nil
    /\ httpRequest = Nil
    /\ response = Nil
    /\ calls = [p \in Calls |-> IdleCall]
    /\ seen = [r \in ConcurrentReviews |-> Nil]
    /\ peer = Nil
    /\ env = Nil
    /\ loadResult = Nil

\* One call of WebhookServer.processAuthRequest.
BasicAuthorize ==
    /\ phase = "serving"
    /\ authorizer = Nil
    /\ sar = Nil
    /\ \E r \in EngineReviews :
          /\ sar' = Ptr(r)
          /\ decision' = Ptr(processAuthRequest([config |-> config], r))
    /\ UNCHANGED <<config, authorizer, phase, startupErr, httpRequest, response, calls,
                   seen, peer, env, loadResult>>

NextBasic == BasicAuthorize \/ Return

SpecBasic == InitBasic /\ [][NextBasic]_vars

(***************************************************************************)
(* Start of the process: config.Load, and on success the construction of   *)
(* the engine from the loaded configuration.                               *)
(***************************************************************************)
ConfigPath == <<"config.yaml">>
CertPath == <<"cert.pem">>
KeyPath == <<"key.pem">>

\* The YAML documents: every choice of the keys the model sets.
YamlMappings ==
    {[k \in keys |->
        CASE k = "port" -> <<"8443">>
          [] k = "tlsCertFile" -> CertPath
          [] k = "tlsKeyFile" -> KeyPath
          [] k = "protectedPrefix" -> <<"test-">>
          [] k = "celRules" -> <<RuleInGroups>>] :
     keys \in SUBSET {"port", "tlsCertFile", "tlsKeyFile", "protectedPrefix", "celRules"}}

Worlds ==
    [configFile : {EmptyString, ConfigPath},
     files : SUBSET {ConfigPath, CertPath, KeyPath},
     yaml : {[kind |-> "invalid", value |-> EmptyObject]}
            \cup {[kind |-> "mapping", value |-> m] : m \in YamlMappings}]

InitLoad ==
    /\ env \in {Ptr(w) : w \in Worlds}
    /\ config = DefaultConfig
    /\ loadResult = Nil
    /\ authorizer = Nil
    /\ phase = "load"
    /\ startupErr = Nil
    /\ sar = Nil
    /\ decision = Nil
    /\ httpRequest = Nil
    /\ response = Nil
    /\ calls = [p \in Calls |-> IdleCall]
    /\ seen = [r \in ConcurrentReviews |-> Nil]
    /\ peer = Nil

\* config.Load at the start of the process; an error ends the process.
LoadConfig ==
    /\ phase = "load"
    /\ LET l == Load(Deref(env).configFile, Deref(env)) IN
       /\ loadResult' = Ptr(l)
       /\ IF l.err # Nil
          THEN phase' = "fatal" /\ config' = config
          ELSE phase' = "start" /\ config' = Deref(l.cfg)
    /\ UNCHANGED <<authorizer, startupErr, sar, decision, httpRequest, response, calls,
                   seen, peer, env>>

NextLoad == LoadConfig \/ Startup

SpecLoad == InitLoad /\ [][NextLoad]_vars

(***************************************************************************)
(* Properties.  They are stated on the states in which a call of           *)
(* ProcessRequest has produced its decision.                               *)
(***************************************************************************)
Answered == phase = "serving" /\ sar # Nil
Req == Deref(sar)
Res == Deref(decision)
Programs == Deref(authorizer).celEval.programs

\* Compiled rule i (1-based) evaluates to the boolean true on the review.
RulePasses(i) ==
    LET result == Eval(Programs[i], EvaluateVars(Req)) IN
    result.t = "bool" /\ result.v

RuleErrors(i) == Eval(Programs[i], EvaluateVars(Req)).t = "error"

AllRulesPass == \A i \in 1..Len(Programs) : RulePasses(i)

CustomRuleReasons(i) ==
    {<<"Request denied by CEL rule ">> \o Itoa(i),
     <<"Error evaluating CEL rule ">> \o Itoa(i),
     <<"Invalid result from CEL rule ">> \o Itoa(i)}

IndirectReason == <<"Impersonation of system:masters group is not allowed">>
DirectReason == <<"Direct impersonation of system:masters group is not allowed">>

MatchesIndirect ==
    /\ Req.ResourceAttributes # Nil
    /\ Req.ResourceAttributes[1].Group = <<"authentication.k8s.io">>
    /\ Req.ResourceAttributes[1].Resource = <<"userextras">>
    /\ Req.ResourceAttributes[1].Subresource = <<"groups">>
    /\ Req.ResourceAttributes[1].Name = <<"system:", "masters">>

MatchesDirect ==
    /\ Req.NonResourceAttributes # Nil
    /\ LET path == Req.NonResourceAttributes[1].Path
           needle == <<"/groups/", "system:", "masters">> IN
       \E i \in 1..Len(path) :
          i + 2 <= Len(path) /\ <<path[i], path[i + 1], path[i + 2]>> = needle

NameHasProtectedPrefix ==
    LET name == Req.ResourceAttributes[1].Name
        prefix == config.ProtectedPrefix IN
    /\ Len(prefix) <= Len(name)
    /\ \A k \in 1..Len(prefix) : name[k] = prefix[k]

MatchesDeleteGate ==
    /\ Req.ResourceAttributes # Nil
    /\ Req.ResourceAttributes[1].Verb = <<"delete">>
    /\ NameHasProtectedPrefix

MemberOf(group) == \E k \in DOMAIN Req.Groups : Req.Groups[k] = group

\* The review gets past the rules and both impersonation guards and meets
\* the condition of the protected-delete gate.
ReachesDeleteGate ==
    Answered /\ MatchesDeleteGate /\ ~MatchesIndirect /\ ~MatchesDirect /\ AllRulesPass

\* C1: when some compiled rule fails on the review and the review also
\* matches a built-in guard (indirect or direct impersonation, or the deny
\* branch of the protected-delete gate), the decision is a deny whose reason
\* is the index-qualified reason of a failing rule, not the guard's reason.
C1_RulePrecedence ==
    (/\ Answered
     /\ \/ MatchesIndirect
        \/ MatchesDirect
        \/ (/\ MatchesDeleteGate
            /\ Req.User # config.PrivilegedUser
            /\ ~MemberOf(<<"system:", "masters">>))
     /\ ~AllRulesPass)
    => /\ ~Res.allowed
       /\ \E i \in 1..Len(Programs) :
             ~RulePasses(i) /\ Res.reason \in CustomRuleReasons(i - 1)
       /\ Res.reason \notin {IndirectReason, DirectReason,
                             DenyDeleteReason(config, Req.User)}

C1_Witness ==
    /\ Answered
    /\ ~AllRulesPass
    /\ MatchesIndirect
    /\ MatchesDirect
    /\ Res = Decision(FALSE, <<"Request denied by CEL rule ", "0">>)

\* C2: when compiled rule i raises an evaluation error and every rule before
\* it evaluates to true, Evaluate returns (false, "Error evaluating CEL rule
\* i") and ProcessRequest returns that same deny.
C2_FailClosed ==
    Answered =>
        \A i \in 1..Len(Programs) :
            (RuleErrors(i) /\ \A j \in 1..(i - 1) : RulePasses(j))
            => /\ Evaluate(Deref(authorizer).celEval, Req)
                    = Decision(FALSE, <<"Error evaluating CEL rule ">> \o Itoa(i - 1))
               /\ Res = Decision(FALSE, <<"Error evaluating CEL rule ">> \o Itoa(i - 1))

C2_Witness ==
    /\ Answered
    /\ Len(Programs) = 2
    /\ RulePasses(1)
    /\ RuleErrors(2)
    /\ Res = Decision(FALSE, <<"Error evaluating CEL rule ", "1">>)

\* C3: the bindings Evaluate passes to the rules hold an entry for both
\* resourceAttributes and nonResourceAttributes, an empty map for an absent
\* block, so no rule is denied with "Error evaluating CEL rule i" because a
\* block is absent.
C3_AbsentBlocksBound ==
    (Answered /\ Len(Programs) > 0)
    => LET bindings == EvaluateVars(Req) IN
       /\ {"resourceAttributes", "nonResourceAttributes"} \subseteq DOMAIN bindings
       /\ Req.ResourceAttributes = Nil
            => DOMAIN bindings["resourceAttributes"].v = {}
       /\ Req.NonResourceAttributes = Nil
            => DOMAIN bindings["nonResourceAttributes"].v = {}
       /\ \A i \in 1..Len(Programs) :
             Res.reason # <<"Error evaluating CEL rule ">> \o Itoa(i - 1)

\* C4: a review of userextras/groups "system:masters" in authentication.k8s.io
\* on which every rule passes is denied with the indirect impersonation
\* reason, whoever the user is and whatever the groups, verb and prefix are.
C4_IndirectGuardUnconditional ==
    (Answered /\ MatchesIndirect /\ AllRulesPass)
    => Res = Decision(FALSE, IndirectReason)

C4_Witness ==
    /\ Answered
    /\ AllRulesPass
    /\ MatchesIndirect
    /\ Req.User = config.PrivilegedUser
    /\ MemberOf(<<"system:", "masters">>)
    /\ MatchesDeleteGate
    /\ Res = Decision(FALSE, IndirectReason)

\* C5: a review that passes the rules, does not match the indirect guard and
\* whose non-resource path contains "/groups/system:masters" is denied with
\* the direct impersonation reason, whatever the user, groups and verb are.
C5_DirectGuard ==
    (Answered /\ MatchesDirect /\ ~MatchesIndirect /\ AllRulesPass)
    => Res = Decision(FALSE, DirectReason)

C5_Witness ==
    /\ Answered
    /\ AllRulesPass
    /\ ~MatchesIndirect
    /\ MatchesDirect
    /\ Req.NonResourceAttributes[1].Verb = <<"get">>
    /\ Req.NonResourceAttributes[1].Path
          = <<"/apis", "/groups/", "system:", "masters", "/extra">>
    /\ Req.User = config.PrivilegedUser
    /\ Res = Decision(FALSE, DirectReason)

C7_PrivilegedUserBypass ==
    (ReachesDeleteGate /\ Req.User = config.PrivilegedUser)
    => Res = Decision(TRUE,
                 <<"User '">> \o Req.User
                 \o <<"' is authorized to delete protected resources as a privileged user">>)

C7_Witness ==
    /\ ReachesDeleteGate
    /\ Req.User = config.PrivilegedUser
    /\ MemberOf(<<"system:", "masters">>)
    /\ Res = Decision(TRUE,
                 <<"User '", "admin",
                   "' is authorized to delete protected resources as a privileged user">>)

\* C8: a protected delete by a member of system:masters who is not the
\* privileged user is allowed with the group-membership reason.
C8_MastersGroupBypass ==
    (/\ ReachesDeleteGate
     /\ Req.User # config.PrivilegedUser
     /\ MemberOf(<<"system:", "masters">>))
    => Res = Decision(TRUE,
                 <<"User '">> \o Req.User
                 \o <<"' is authorized to delete protected resources as a member of system:masters group">>)

C8_Witness ==
    /\ ReachesDeleteGate
    /\ Req.User = <<"test-user">>
    /\ Req.User # config.PrivilegedUser
    /\ Req.Groups = <<<<"system:", "nodes">>, <<"system:", "masters">>>>
    /\ Res = Decision(TRUE,
                 <<"User '", "test-user",
                   "' is authorized to delete protected resources as a member of system:masters group">>)

C10_ReadmeDeleteRule ==
    ReachesDeleteGate
    => (Res.allowed <=> \/ Req.User = config.PrivilegedUser
                        \/ MemberOf(<<"system:", "masters">>)
                        \/ MemberOf(<<"system:", "nodes">>))

DefaultReason == <<"Request allowed by authorization webhook">>

\* The result of the rule stage on the review in flight.
RuleStage == Evaluate(Deref(authorizer).celEval, Req)

\* C11: a review on which all rules pass, no impersonation guard matches and
\* the condition of the delete gate does not hold (no resourceAttributes, or
\* another verb, or a name without the prefix) is allowed with the default
\* reason; with no rules this holds for every such review.
C11_DefaultAllow ==
    (/\ Answered
     /\ ~MatchesDeleteGate
     /\ ~MatchesIndirect
     /\ ~MatchesDirect
     /\ AllRulesPass)
    => Res = Decision(TRUE, DefaultReason)

C11_Witness ==
    /\ Answered
    /\ Len(Programs) = 0
    /\ Req.ResourceAttributes # Nil
    /\ Req.ResourceAttributes[1].Verb = <<"delete", "collection">>
    /\ Req.ResourceAttributes[1].Name = <<"test-", "resource">>
    /\ config.ProtectedPrefix = <<"test-">>
    /\ Req.User # config.PrivilegedUser
    /\ Req.Groups = <<>>
    /\ Res = Decision(TRUE, DefaultReason)

\* C12: Evaluate allows exactly when the compiled list is empty or every
\* compiled rule evaluates to true; the reason is "No CEL rules configured"
\* for the empty list and "Request allowed by CEL rules" otherwise.
C12_RuleStageIsConjunction ==
    Answered =>
        /\ RuleStage.allowed <=> AllRulesPass
        /\ Len(Programs) = 0 => RuleStage = Decision(TRUE, <<"No CEL rules configured">>)
        /\ (Len(Programs) > 0 /\ AllRulesPass)
             => RuleStage = Decision(TRUE, <<"Request allowed by CEL rules">>)

C12_Witness ==
    /\ Answered
    /\ Len(Programs) = 2
    /\ RulePasses(1)
    /\ RulePasses(2)
    /\ RuleStage = Decision(TRUE, <<"Request allowed by CEL rules">>)

\* The first compiled rule (1-based) that does not evaluate to true.
FirstFailing == CHOOSE i \in 1..Len(Programs) :
                    ~RulePasses(i) /\ \A j \in 1..(i - 1) : RulePasses(j)

\* C13: when some compiled rule does not evaluate to true, Evaluate denies
\* with a reason carrying the 0-based index of the first such rule, the
\* rules after it have no influence on the result, and a rule that evaluates
\* to false yields exactly "Request denied by CEL rule i".
C13_FirstFailureReported ==
    (Answered /\ ~AllRulesPass)
    => LET i == FirstFailing
           result == Eval(Programs[i], EvaluateVars(Req)) IN
       /\ ~RuleStage.allowed
       /\ RuleStage.reason \in CustomRuleReasons(i - 1)
       /\ RuleStage = Evaluate([programs |-> SubSeq(Programs, 1, i)], Req)
       /\ (result.t = "bool" /\ ~result.v)
            => RuleStage = Decision(FALSE, <<"Request denied by CEL rule ">> \o Itoa(i - 1))

C13_Witness ==
    /\ Answered
    /\ Len(Programs) = 2
    /\ ~RulePasses(1)
    /\ ~RulePasses(2)
    /\ Eval(Programs[1], EvaluateVars(Req)) = BoolVal(FALSE)
    /\ RuleStage = Decision(FALSE, <<"Request denied by CEL rule ", "0">>)

\* C14: when compiled rule i evaluates without error to a value that is not
\* a boolean and every earlier rule evaluates to true, Evaluate returns
\* (false, "Invalid result from CEL rule i"), which is neither the "denied"
\* nor the "error" wording; such a result never passes.
C14_NonBooleanResult ==
    Answered =>
        \A i \in 1..Len(Programs) :
            (/\ Eval(Programs[i], EvaluateVars(Req)).t \notin {"bool", "error"}
             /\ \A j \in 1..(i - 1) : RulePasses(j))
            => /\ RuleStage = Decision(FALSE, <<"Invalid result from CEL rule ">> \o Itoa(i - 1))
               /\ RuleStage.reason \notin
                     {<<"Request denied by CEL rule ">> \o Itoa(i - 1),
                      <<"Error evaluating CEL rule ">> \o Itoa(i - 1)}
               /\ ~Res.allowed

C14_Witness ==
    /\ Answered
    /\ Len(Programs) = 2
    /\ RulePasses(1)
    /\ Eval(Programs[2], EvaluateVars(Req)).t = "string"
    /\ RuleStage = Decision(FALSE, <<"Invalid result from CEL rule ", "1">>)
    /\ Res = Decision(FALSE, <<"Invalid result from CEL rule ", "1">>)

\* The configured expressions that are not empty, in order.
NonEmptyRules == SelectSeq(config.CELRules, LAMBDA rule : rule # "")

Compiles(rule) == Compile(rule) # CompileError

\* The first configured expression (1-based position among the non-empty
\* ones) that does not compile.
FirstOffending == CHOOSE k \in 1..Len(NonEmptyRules) :
                      /\ ~Compiles(NonEmptyRules[k])
                      /\ \A j \in 1..(k - 1) : Compiles(NonEmptyRules[j])

\* C15: when some non-empty configured expression does not compile,
\* NewEvaluator returns no Evaluator and an error naming the first such
\* expression; no Authorizer is built and the process does not serve.
C15_AtomicCompilationFailure ==
    (/\ phase # "start"
     /\ \E k \in 1..Len(NonEmptyRules) : ~Compiles(NonEmptyRules[k]))
    => /\ phase = "fatal"
       /\ authorizer = Nil
       /\ startupErr # Nil
       /\ LET rule == NonEmptyRules[FirstOffending] IN
          \E issue \in {<<"Syntax error">>, <<"found no matching overload for '_==_'">>} :
             startupErr[1] = <<"failed to compile CEL rules: ",
                               "failed to compile CEL rule '", rule, "': ">> \o issue

C15_Witness ==
    /\ phase = "fatal"
    /\ config.CELRules = <<"'system:masters' in groups", "invalid syntax">>
    /\ authorizer = Nil
    /\ startupErr = <<<<"failed to compile CEL rules: ", "failed to compile CEL rule '",
                       "invalid syntax", "': ", "Syntax error">>>>

\* C16: after a successful compilation the compiled list is the list of the
\* non-empty configured expressions, compiled one by one in their order; an
\* empty string yields no rule and no error, so a list of empty strings
\* gives the empty rule list.
C16_BlanksSkippedOrderKept ==
    /\ phase = "serving"
         => /\ Len(Programs) = Len(NonEmptyRules)
            /\ \A k \in 1..Len(NonEmptyRules) : Programs[k] = Compile(NonEmptyRules[k])
    /\ (phase # "start" /\ \A k \in 1..Len(config.CELRules) : config.CELRules[k] = "")
         => (phase = "serving" /\ startupErr = Nil /\ Len(Programs) = 0)

C16_Witness ==
    /\ phase = "serving"
    /\ config.CELRules = <<"", "user">>
    /\ Programs = <<[op |-> "ident", name |-> "user"]>>

Served == phase = "serving" /\ httpRequest # Nil
HttpReq == Deref(httpRequest)
HttpRes == Deref(response)

\* The body of the request decodes as JSON.
Decodable == HttpReq.Body.kind = "json"

\* A boolean member of a JSON object as a client decodes it: false when the
\* key is left out.
JsonBool(obj, key) == IF key \in DOMAIN obj THEN obj[key] ELSE FALSE

\* C19: a POST with a decodable body is answered with status 200 and a
\* SubjectAccessReview of apiVersion authorization.k8s.io/v1 whose
\* status.allowed is the verdict of ProcessRequest, status.denied its
\* negation and status.reason the reason of ProcessRequest, for allow and
\* deny alike.
C19_ResponseShape ==
    (Served /\ HttpReq.Method = "POST" /\ Decodable)
    => /\ decision # Nil
       /\ HttpRes.Code = 200
       /\ HttpRes.Body.kind = "json"
       /\ LET review == HttpRes.Body.value IN
          /\ review.apiVersion = <<"authorization.k8s.io/v1">>
          /\ review.kind = <<"SubjectAccessReview">>
          /\ JsonBool(review.status, "allowed") = Res.allowed
          /\ JsonBool(review.status, "denied") = ~JsonBool(review.status, "allowed")
          /\ "reason" \in DOMAIN review.status
          /\ review.status.reason = Res.reason

C19_Witness ==
    /\ Served
    /\ HttpReq.Method = "POST"
    /\ Decodable
    /\ HttpRes.Code = 200
    /\ ~Res.allowed
    /\ HttpRes.Body.value.status
         = [allowed |-> FALSE, denied |-> TRUE,
            reason |-> <<"User '", "test-user",
                         "' is not authorized to delete resources with prefix '", "test-",
                         "'. Only '", "admin",
                         "' users or members of system:masters/system:nodes groups can perform this operation.">>]

\* C20: a request whose method is not POST is answered with 405 and a POST
\* whose body cannot be decoded as JSON, the empty body included, with 400;
\* in both cases ProcessRequest is not called and the response carries no
\* SubjectAccessReview status.
C20_ProtocolErrorsAreNotDecisions ==
    Served =>
        /\ HttpReq.Method # "POST" => HttpRes.Code = 405
        /\ (HttpReq.Method = "POST" /\ ~Decodable) => HttpRes.Code = 400
        /\ (HttpReq.Method # "POST" \/ ~Decodable)
             => /\ sar = Nil
                /\ decision = Nil
                /\ HttpRes.Body.kind = "text"

C20_Witness ==
    /\ Served
    /\ HttpReq.Method = "POST"
    /\ HttpReq.Body.kind = "empty"
    /\ HttpRes = [Code |-> 400, Body |-> [kind |-> "text", text |-> "Invalid request body"]]
    /\ decision = Nil

\* The Authorizer construction built from the configuration.
Constructed ==
    [config |-> config, celEval |-> Deref(NewEvaluator(config.CELRules).eval)]

Finished(p) == phase = "serving" /\ calls[p].pc = "done"

\* C17: for a fixed configuration, rule list and review, every call of
\* ProcessRequest returns the pair the first call for that review returned,
\* whatever calls were made before it and in whatever order.
C17_Purity ==
    \A p \in Calls :
        Finished(p) => calls[p].decision = seen[Deref(calls[p].sar)]

C17_Witness ==
    /\ \A r \in ConcurrentReviews : seen[r] # Nil
    /\ \A p \in Calls : Finished(p)
    /\ \A p \in Calls : calls[p].sar = calls[1].sar
    /\ Len(Deref(authorizer).celEval.programs) > 0
    /\ \E r1, r2 \in ConcurrentReviews : seen[r1] # seen[r2]

\* C18: under every interleaving of concurrent calls of ProcessRequest no
\* step of a call changes the configuration or the compiled rule list, and
\* the decision of each call is the one ProcessRequest gives that review
\* when run alone on the Authorizer as constructed.
C18_ConcurrentCallsIndependent ==
    /\ [](\A p \in Calls :
            Finished(p)
            => Deref(calls[p].decision) = ProcessRequest(Constructed, Deref(calls[p].sar)))
    /\ [][phase = "serving" => (config' = config /\ authorizer' = authorizer)]_vars

C18_Witness ==
    /\ Finished(1)
    /\ calls[2].pc = "rules"
    /\ calls[2].i = 2
    /\ calls[1].sar # calls[2].sar
    /\ ~Deref(calls[1].decision).allowed
    /\ authorizer = Ptr(Constructed)

GateDenyReason ==
    <<"User '">> \o Req.User \o <<"' is not authorized to delete resources with prefix '">>
        \o config.ProtectedPrefix \o <<"'. Only '">> \o config.PrivilegedUser
        \o <<"' users or members of system:masters/system:nodes groups can perform this operation.">>

PrivilegedUserReason ==
    <<"User '">> \o Req.User
        \o <<"' is authorized to delete protected resources as a privileged user">>

MastersMemberReason ==
    <<"User '">> \o Req.User
        \o <<"' is authorized to delete protected resources as a member of system:masters group">>

\* C21: ProcessRequest returns for every review and every compiled rule list
\* a non-empty reason, which is an index-qualified rule reason, an
\* impersonation reason or the protected-delete reason on a deny, and the
\* privileged-user, system:masters or default reason on an allow.
C21_ClosedReasonVocabulary ==
    Answered
    => /\ decision # Nil
       /\ Res.reason # EmptyString
       /\ IF Res.allowed
          THEN Res.reason \in {PrivilegedUserReason, MastersMemberReason, DefaultReason}
          ELSE \/ Res.reason \in {IndirectReason, DirectReason, GateDenyReason}
               \/ \E i \in 0..(Len(Programs) - 1) : Res.reason \in CustomRuleReasons(i)

C21_Witness ==
    /\ Answered
    /\ Req.ResourceAttributes # Nil
    /\ Req.NonResourceAttributes # Nil
    /\ Len(Programs) = 2
    /\ Res = Decision(FALSE, <<"Request denied by CEL rule ", "1">>)

PassesBuiltinGuards == ~MatchesIndirect /\ ~MatchesDirect /\ AllRulesPass

\* C23: a delete of a resource with the empty name meets the protected-delete
\* gate exactly when protectedPrefix is empty: with a non-empty prefix an
\* unprivileged user is allowed with the default reason, and with the empty
\* prefix every delete that reaches the gate gets one of the gate's answers.
C23_EmptyName ==
    (/\ Answered
     /\ Req.ResourceAttributes # Nil
     /\ Req.ResourceAttributes[1].Verb = <<"delete">>
     /\ PassesBuiltinGuards)
    => /\ (Req.ResourceAttributes[1].Name = <<>> /\ config.ProtectedPrefix # <<>>)
            => Res = Decision(TRUE, DefaultReason)
       /\ config.ProtectedPrefix = <<>>
            => Res.reason \in {GateDenyReason, PrivilegedUserReason, MastersMemberReason}

C23_Witness ==
    /\ Answered
    /\ Req.ResourceAttributes # Nil
    /\ Req.ResourceAttributes[1].Verb = <<"delete">>
    /\ Req.ResourceAttributes[1].Name = <<>>
    /\ config.ProtectedPrefix = <<"test-">>
    /\ Req.User = <<"test-user">>
    /\ Req.Groups = <<>>
    /\ Res = Decision(TRUE, DefaultReason)

\* C27: ProcessRequest never returns a reason of the rule stage on an allow:
\* when the rules pass, or there are none, the decision is the one the
\* built-in stages give without rules, and without rules a deny comes from
\* a built-in stage.
C27_RuleAllowReasonsStayInside ==
    Answered
    => /\ Res.reason \notin {<<"No CEL rules configured">>, <<"Request allowed by CEL rules">>}
       /\ AllRulesPass
            => Res = ProcessRequest([config |-> config, celEval |-> [programs |-> <<>>]], Req)
       /\ (Len(Programs) = 0 /\ ~Res.allowed)
            => Res.reason \in {IndirectReason, DirectReason, GateDenyReason}

C27_Witness ==
    /\ Answered
    /\ Len(Programs) > 0
    /\ AllRulesPass
    /\ Res = Decision(TRUE, DefaultReason)

\* The first configured expression (1-based position in ruleExpressions)
\* that is not empty and does not evaluate to true on the review.
FailsOnReview(rule) ==
    LET result == Eval(Compile(rule), EvaluateVars(Req)) IN
    rule # "" /\ ~(result.t = "bool" /\ result.v)

FirstFailingConfigured ==
    CHOOSE k \in 1..Len(config.CELRules) :
        /\ FailsOnReview(config.CELRules[k])
        /\ \A j \in 1..(k - 1) : ~FailsOnReview(config.CELRules[j])

NonEmptyBefore(k) == Cardinality({j \in 1..(k - 1) : config.CELRules[j] # ""})

\* C28: the index in the reason of a rule denial is the number of non-empty
\* expressions configured before the failing one; when empty expressions
\* precede it, that is less than its 0-based position in ruleExpressions.
C28_IndexOfCompiledList ==
    (/\ Answered
     /\ \E k \in 1..Len(config.CELRules) : FailsOnReview(config.CELRules[k]))
    => LET k == FirstFailingConfigured IN
       /\ Res.reason \in CustomRuleReasons(NonEmptyBefore(k))
       /\ (\E j \in 1..(k - 1) : config.CELRules[j] = "")
            => /\ NonEmptyBefore(k) < k - 1
               /\ Res.reason \notin CustomRuleReasons(k - 1)

C28_Witness ==
    /\ Answered
    /\ config.CELRules = <<"", RuleInGroups>>
    /\ Res = Decision(FALSE, <<"Request denied by CEL rule ", "0">>)

\* C29: for a review that passes the rules, (a) when the indirect and the
\* direct impersonation guard both match the reason is the indirect one, and
\* (b) in the delete gate the privileged user who is also a member of
\* system:masters is allowed with the privileged-user reason.
C29_OrderOfBuiltinStages ==
    (Answered /\ AllRulesPass)
    => /\ (MatchesIndirect /\ MatchesDirect) => Res = Decision(FALSE, IndirectReason)
       /\ (/\ MatchesDeleteGate
           /\ ~MatchesIndirect
           /\ ~MatchesDirect
           /\ Req.User = config.PrivilegedUser
           /\ MemberOf(<<"system:", "masters">>))
            => Res = Decision(TRUE, PrivilegedUserReason)

C29_Witness ==
    /\ Answered
    /\ AllRulesPass
    /\ MatchesIndirect
    /\ MatchesDirect
    /\ Res = Decision(FALSE, IndirectReason)

\* C30: a review with a verb other than "delete" (deletecollection, update,
\* patch) on a resource whose name starts with protectedPrefix, from a user
\* who is neither privileged nor in system:masters, is not denied by the
\* delete gate, and when no rule and no impersonation guard denies it, it is
\* allowed with the default reason.
C30_VerbMatchedExactly ==
    (/\ Answered
     /\ Req.ResourceAttributes # Nil
     /\ Req.ResourceAttributes[1].Verb # <<"delete">>
     /\ NameHasProtectedPrefix
     /\ Req.User # config.PrivilegedUser
     /\ ~MemberOf(<<"system:", "masters">>))
    => /\ Res.reason # GateDenyReason
       /\ PassesBuiltinGuards => Res = Decision(TRUE, DefaultReason)

C30_Witness ==
    /\ Answered
    /\ Req.ResourceAttributes # Nil
    /\ Req.ResourceAttributes[1].Verb = <<"delete", "collection">>
    /\ Req.ResourceAttributes[1].Name = <<"test-", "resource">>
    /\ config.ProtectedPrefix = <<"test-">>
    /\ Req.User = <<"test-user">>
    /\ ~MemberOf(<<"system:", "masters">>)
    /\ Res = Decision(TRUE, DefaultReason)

Compared(kind) == Answered /\ peer # Nil /\ Deref(peer).kind = kind

\* C25: without rules, two reviews that differ only in the order or the
\* multiplicity of their groups get the same (allowed, reason) pair.
C25_GroupsAreASet ==
    (/\ Compared("permuted")
     /\ Len(Programs) = 0
     /\ {Deref(peer).sar.Groups[k] : k \in DOMAIN Deref(peer).sar.Groups}
          = {Req.Groups[k] : k \in DOMAIN Req.Groups}
     /\ [Deref(peer).sar EXCEPT !.Groups = <<>>] = [Req EXCEPT !.Groups = <<>>])
    => Deref(peer).decision = Res

C25_Witness ==
    /\ Compared("permuted")
    /\ Len(Programs) = 0
    /\ Req.Groups = <<<<"system:", "masters">>, <<"system:", "nodes">>>>
    /\ Deref(peer).sar.Groups = <<<<"system:", "nodes">>, <<"system:", "masters">>>>
    /\ MatchesDeleteGate
    /\ Res = Decision(TRUE, MastersMemberReason)
    /\ Deref(peer).decision = Res

\* The rule list of the second call is the configured one with further
\* rules appended.
Extends(longer, shorter) ==
    /\ Len(longer) > Len(shorter)
    /\ \A k \in 1..Len(shorter) : longer[k] = shorter[k]

\* C26: when ProcessRequest allows a review under a rule list with further
\* rules appended, it allows the review under the list without them, with
\* the same reason; a deny without rules stays a deny under every rule list.
C26_RulesOnlyTighten ==
    (/\ Compared("extended")
     /\ Deref(peer).sar = Req
     /\ Extends(Deref(peer).rules, config.CELRules)
     /\ Deref(peer).decision.allowed)
    => /\ Res.allowed
       /\ Res.reason = Deref(peer).decision.reason

C26_Witness ==
    /\ Compared("extended")
    /\ config.CELRules = <<RuleInGroups>>
    /\ Deref(peer).rules = <<RuleInGroups, RuleVerbDelete>>
    /\ Deref(peer).sar = Req
    /\ Deref(peer).decision.allowed
    /\ Res = Decision(TRUE, MastersMemberReason)
    /\ Deref(peer).decision = Res

BasicDenyReason ==
    <<"User '">> \o Req.User \o <<"' is not authorized to delete resources with prefix '">>
        \o config.ProtectedPrefix \o <<"'. Only '">> \o config.PrivilegedUser
        \o <<"' users can perform this operation.">>

\* C22: processAuthRequest of the basic server denies exactly the reviews
\* with resourceAttributes, verb "delete", a name that starts with
\* ProtectedPrefix and a user other than PrivilegedUser, with the basic deny
\* reason; every other review, a protected delete by the privileged user
\* included, is allowed with "Request allowed by authorization webhook".
C22_BasicVariant ==
    Answered
    => IF /\ Req.ResourceAttributes # Nil
          /\ Req.ResourceAttributes[1].Verb = <<"delete">>
          /\ NameHasProtectedPrefix
          /\ Req.User # config.PrivilegedUser
       THEN Res = Decision(FALSE, BasicDenyReason)
       ELSE Res = Decision(TRUE, DefaultReason)

C22_Witness ==
    /\ Answered
    /\ authorizer = Nil
    /\ MatchesDeleteGate
    /\ config.ProtectedPrefix = <<"test-">>
    /\ Req.User = config.PrivilegedUser
    /\ ~MemberOf(<<"system:", "masters">>)
    /\ Res = Decision(TRUE, DefaultReason)

World == Deref(env)

\* The YAML file is named and cannot be read or parsed.
YamlUnusable ==
    /\ World.configFile # <<>>
    /\ World.configFile \notin World.files \/ World.yaml.kind # "mapping"

\* The value of a TLS field after the YAML file is merged over the defaults,
\* which leave both TLS fields empty.
MergedTLS(key) ==
    IF World.configFile # <<>> /\ key \in DOMAIN World.yaml.value
    THEN World.yaml.value[key]
    ELSE <<>>

TLSUnusable ==
    \E key \in {"tlsCertFile", "tlsKeyFile"} :
        MergedTLS(key) = <<>> \/ MergedTLS(key) \notin World.files

\* C24: config.Load returns an error and no Config when the YAML file cannot
\* be read or parsed, or when after the merge a TLS file is not set or does
\* not exist; it returns a Config only when both are set and exist, and no
\* engine is built from a configuration Load refused.
C24_ConfigValidated ==
    loadResult # Nil
    => LET l == Deref(loadResult) IN
       /\ (YamlUnusable \/ TLSUnusable)
            => /\ l.err # Nil
               /\ l.cfg = Nil
               /\ phase = "fatal"
               /\ authorizer = Nil
       /\ l.cfg # Nil
            => /\ l.err = Nil
               /\ ~YamlUnusable
               /\ Deref(l.cfg).TLSCertFile \in World.files
               /\ Deref(l.cfg).TLSKeyFile \in World.files

C24_Witness ==
    /\ loadResult # Nil
    /\ World.configFile = <<"config.yaml">>
    /\ World.files = {<<"config.yaml">>, <<"cert.pem">>}
    /\ MergedTLS("tlsCertFile") = <<"cert.pem">>
    /\ MergedTLS("tlsKeyFile") = <<"key.pem">>
    /\ Deref(loadResult) = [cfg |-> <<>>,
                            err |-> <<<<"TLS key file not found: ", "key.pem">>>>]
    /\ phase = "fatal"

====
